---- MODULE Spec2Model ----
(***************************************************************************)
(* A model of pi.py: a population ("world") of rational approximations of  *)
(* pi ("animals") that is aged, culled and bred for a fixed number of      *)
(* generations by the script's main loop.                                  *)
(*                                                                         *)
(* Numbers.  Decimal arithmetic is modelled in fixed point with Scale      *)
(* units per 1 and round-half-even division (Decimal's default rounding);  *)
(* the program keeps 28 significant digits, the model 6 decimal places.    *)
(* A mutation fraction is a pair <<p, q>> standing for p/q.  The model's   *)
(* fractions are dyadic and its integers small, so the float products of   *)
(* new_child are exact and round() sees the exact rational.                *)
(* None is written 0: lines 30 and 32 test truthiness, which is false for  *)
(* both.                                                                   *)
(***************************************************************************)
EXTENDS Integers, Sequences, FiniteSets, Bags, TLC

VARIABLES
    animals,      \* World.animals: a sequence of Animal records
    generation,   \* the main loop's counter
    pc,           \* the statement of __main__ that runs next
    config,       \* the Config object
    output,       \* what print_world_status has printed, one record per call
    births        \* the new_child calls of the last reproduce_animals call

vars == <<animals, generation, pc, config, output, births>>

(***************************************************************************)
(* Bounds of the model.                                                    *)
(***************************************************************************)
\* Stands for MAX_INT = 2147483647 (line 7): random draws come from 1..MAX_INT.
MAX_INT == 3
\* The largest Config.initial_population the model starts from.
MaxInitialPopulation == 2

\* Config values the model runs.
MaxAges == {2, 5}
GenerationCounts == {0, 1, 3}
MaxPopulations == {1, 4}
MaxDistances == {0, 1, 3}
Mutations == {<<0, 1>>, <<1, 2>>, <<2, 1>>}

(***************************************************************************)
(* Arithmetic.                                                             *)
(***************************************************************************)
Scale == 10^6

\* Decimal(3.141592653589793) in Scale units.
PI == 3141593

Abs(x) == IF x < 0 THEN -x ELSE x

\* x / y rounded to the nearest integer, ties to the even one: Python 3's
\* round() and Decimal's ROUND_HALF_EVEN.
RoundHalfEven(x, y) ==
    LET sx == IF y < 0 THEN -x ELSE x
        sy == IF y < 0 THEN -y ELSE y
        q == sx \div sy
        r == sx - q * sy
    IN  IF 2 * r < sy THEN q
        ELSE IF 2 * r > sy THEN q + 1
        ELSE IF q % 2 = 0 THEN q ELSE q + 1

fitness(pi_approx) == Abs(PI - pi_approx)

get_pi(numerator, denominator) == RoundHalfEven(Scale * numerator, denominator)

(***************************************************************************)
(* Animal.                                                                 *)
(***************************************************************************)
\* Animal(numerator, denominator) with the two draws it may make.
Animal(numerator, denominator, randNumerator, randDenominator) ==
    LET n == IF numerator # 0 THEN numerator ELSE randNumerator
        d == IF denominator # 0 THEN denominator ELSE randDenominator
    IN  [numerator |-> n, denominator |-> d, age |-> 0,
         fitness |-> fitness(get_pi(n, d))]

\* Every Animal the constructor can return: a draw is made only for a falsy
\* argument.
Animals(numerator, denominator) ==
    { Animal(numerator, denominator, rn, rd) :
        rn \in (IF numerator # 0 THEN {numerator} ELSE 1..MAX_INT),
        rd \in (IF denominator # 0 THEN {denominator} ELSE 1..MAX_INT) }

(***************************************************************************)
(* World.                                                                  *)
(***************************************************************************)
\* The place list.sort(key=fitness) gives l[i]: after every element with a
\* smaller key and after the earlier elements with the same key (the sort is
\* stable).
SortedPlace(l, i) ==
    1 + Cardinality({j \in DOMAIN l :
                        \/ l[j].fitness < l[i].fitness
                        \/ l[j].fitness = l[i].fitness /\ j < i})

StableSort(l) == [k \in 1..Len(l) |-> l[CHOOSE i \in DOMAIN l : SortedPlace(l, i) = k]]

sort_animals(l) == StableSort(l)

\* World(config).animals for the draws of fill_world.
World(drawn) == sort_animals(drawn)

\* get_parents stepping by 1: a pair starts at every position.
get_parents_overlapping(l) ==
    LET chunks == [k \in 1..Len(l) |->
                      SubSeq(l, k, IF k + 1 <= Len(l) THEN k + 1 ELSE Len(l))]
    IN  SelectSeq(chunks, LAMBDA c : Len(c) % 2 = 0)

get_parents(l) ==
    LET chunks == [k \in 1..((Len(l) + 1) \div 2) |->
                      SubSeq(l, 2 * k - 1, IF 2 * k <= Len(l) THEN 2 * k ELSE Len(l))]
    IN  SelectSeq(chunks, LAMBDA c : Len(c) % 2 = 0)

\* The Animals new_child can return: one per outcome of the two coins (and
\* of the constructor's draws).
new_child(father, mother, mutation) ==
    LET p == mutation[1]
        q == mutation[2]
        num2 == father.numerator + mother.numerator
        den2 == father.denominator + mother.denominator
        factor(coin) == IF coin = 1 THEN q + p ELSE q - p
    IN  UNION { Animals(RoundHalfEven(num2 * factor(c1), 2 * q),
                        RoundHalfEven(den2 * factor(c2), 2 * q)) :
                  c1 \in 0..1, c2 \in 0..1 }

\* The sequences of children the loop of reproduce_animals can build.
RECURSIVE Litters(_, _)
Litters(parent_pairs, mutation) ==
    IF parent_pairs = <<>> THEN {<<>>}
    ELSE { <<child>> \o rest :
             child \in new_child(Head(parent_pairs)[1], Head(parent_pairs)[2], mutation),
             rest \in Litters(Tail(parent_pairs), mutation) }

\* reproduce_animals without its closing sort_animals call.
reproduce_animals_unsorted(l, children) == l \o children

reproduce_animals(l, children) == sort_animals(l \o children)

\* kill_old_animals keeping the animals of exactly the given age too.
kill_old_animals_inclusive(l, age) == SelectSeq(l, LAMBDA i : i.age <= age)

kill_old_animals(l, age) == SelectSeq(l, LAMBDA i : i.age < age)

\* age_animals starting its loop at the second animal.
age_animals_skip_first(l) ==
    [i \in 1..Len(l) |-> IF i = 1 THEN l[i] ELSE [l[i] EXCEPT !.age = @ + 1]]

age_animals(l) == [i \in 1..Len(l) |-> [l[i] EXCEPT !.age = @ + 1]]

\* kill_weak_animals with its comparison the wrong way round.
kill_weak_animals_inverted(l, max_dist) ==
    SelectSeq(l, LAMBDA i : i.fitness >= max_dist * Scale)

kill_weak_animals(l, max_dist) == SelectSeq(l, LAMBDA i : i.fitness < max_dist * Scale)

\* kill_overcrowded keeping the other half of the slice.
kill_overcrowded_weakest(l, max_pop) ==
    IF Len(l) > max_pop THEN SubSeq(l, Len(l) \div 2 + 1, Len(l)) ELSE l

\* kill_overcrowded taking the slice without assigning it to self.animals.
kill_overcrowded_unassigned(l, max_pop) ==
    IF Len(l) > max_pop THEN l ELSE l

kill_overcrowded(l, max_pop) ==
    IF Len(l) > max_pop THEN SubSeq(l, 1, Len(l) \div 2) ELSE l

print_world_status(g, l) ==
    [generation |-> g, population |-> Len(l),
     fittest |-> IF Len(l) > 0 THEN <<l[1]>> ELSE <<>>]

\* The loop condition running one generation too many.
loop_condition_inclusive(g, c) == g <= c.max_generations

loop_condition(g, c) == g < c.max_generations

(***************************************************************************)
(* __main__.                                                               *)
(***************************************************************************)
Configs ==
    [max_age : MaxAges, max_generations : GenerationCounts,
     max_population : MaxPopulations,
     initial_population : 0..MaxInitialPopulation,
     max_distance_from_pi : MaxDistances, mutation_percentage : Mutations]

RandomAnimals == Animals(0, 0)

Start(c) ==
    /\ config = c
    /\ \E drawn \in [1..c.initial_population -> RandomAnimals] :
          animals = World(drawn)
    /\ generation = 0
    /\ pc = "print_initial"
    /\ output = <<>>
    /\ births = <<>>

Init == \E c \in Configs : Start(c)

LoopHead(g) == IF loop_condition(g, config) THEN "kill_old" ELSE "done"

PrintInitial ==
    /\ pc = "print_initial"
    /\ output' = Append(output, print_world_status(generation, animals))
    /\ pc' = LoopHead(generation)
    /\ UNCHANGED <<animals, generation, config, births>>

KillOld ==
    /\ pc = "kill_old"
    /\ animals' = kill_old_animals(animals, config.max_age)
    /\ pc' = "kill_weak"
    /\ UNCHANGED <<generation, config, output, births>>

KillWeak ==
    /\ pc = "kill_weak"
    /\ animals' = kill_weak_animals(animals, config.max_distance_from_pi)
    /\ pc' = "reproduce"
    /\ UNCHANGED <<generation, config, output, births>>

Reproduce ==
    /\ pc = "reproduce"
    /\ LET parent_pairs == get_parents(animals)
       IN  \E children \in Litters(parent_pairs, config.mutation_percentage) :
              /\ animals' = reproduce_animals(animals, children)
              /\ births' = [k \in 1..Len(parent_pairs) |->
                              [father |-> parent_pairs[k][1],
                               mother |-> parent_pairs[k][2],
                               child |-> children[k]]]
    /\ pc' = "kill_overcrowded"
    /\ UNCHANGED <<generation, config, output>>

KillOvercrowded ==
    /\ pc = "kill_overcrowded"
    /\ animals' = kill_overcrowded(animals, config.max_population)
    /\ pc' = "age"
    /\ UNCHANGED <<generation, config, output, births>>

Age ==
    /\ pc = "age"
    /\ generation' = generation + 1
    /\ animals' = age_animals(animals)
    /\ output' = Append(output, print_world_status(generation', animals'))
    /\ pc' = LoopHead(generation')
    /\ UNCHANGED <<config, births>>

Next ==
    \/ PrintInitial
    \/ KillOld
    \/ KillWeak
    \/ Reproduce
    \/ KillOvercrowded
    \/ Age

Spec == Init /\ [][Next]_vars

\* The runs without mutation under the larger cap, in which the main loop is
\* never held up: it does not block or wait, so a step that can be taken is
\* taken.
InitFair ==
    \E c \in Configs :
        /\ c.mutation_percentage = <<0, 1>>
        /\ c.max_population = 4
        /\ Start(c)

FairSpec == InitFair /\ [][Next]_vars /\ WF_vars(Next)

\* The scenario of the end-to-end test: 4 random animals, one generation,
\* no mutation, distance threshold 1.
ScenarioConfig ==
    [max_age |-> 5, max_generations |-> 1, max_population |-> 10000,
     initial_population |-> 4, max_distance_from_pi |-> 1,
     mutation_percentage |-> <<0, 1>>]

InitScenario == Start(ScenarioConfig)

SpecScenario == InitScenario /\ [][Next]_vars

(***************************************************************************)
(* Properties.                                                             *)
(***************************************************************************)
Range(l) == {l[i] : i \in DOMAIN l}

BagOf(l) == [x \in Range(l) |-> Cardinality({i \in DOMAIN l : l[i] = x})]

IsSorted(l) == \A i \in 1..(Len(l) - 1) : l[i].fitness <= l[i + 1].fitness

Children == [k \in DOMAIN births |-> births[k].child]

\* The j-th smallest element of the set of indices S.
Nth(S, j) == CHOOSE i \in S : Cardinality({m \in S : m <= i}) = j

\* The step just finished removed the weaker part of an overcrowded world:
\* without a truncation a world holds at least 3 animals per child born.
Truncated == Len(births) >= 1 /\ Len(animals) < 3 * Len(births)

\* C1: reproduce_animals on a world of s animals calls new_child once per
\* pair of positions (1,2), (3,4), ... of the world as it was before the
\* call, floor(s/2) times in all (an odd last animal is no parent, fewer than
\* 2 animals give no child), and the world afterwards holds the s animals it
\* held, unchanged, plus the floor(s/2) children.
C1_Reproduce ==
    [][pc = "reproduce" =>
         LET s == Len(animals)
             n == s \div 2
         IN  /\ Len(births') = n
             /\ \A k \in 1..n : /\ births'[k].father = animals[2 * k - 1]
                                /\ births'[k].mother = animals[2 * k]
                                /\ births'[k].child.age = 0
             /\ Len(animals') = s + n
             /\ BagOf(animals') =
                    BagOf(animals) (+) BagOf([k \in 1..n |-> births'[k].child])]_vars

\* A world of odd size (3 or more) has reproduced.
C1_Witness ==
    /\ pc = "kill_overcrowded"
    /\ Len(births) >= 1
    /\ (Len(animals) - Len(births)) % 2 = 1

C3_KillOld ==
    [][pc = "kill_old" =>
         LET young == {i \in DOMAIN animals : animals[i].age < config.max_age}
         IN  /\ \A j \in DOMAIN animals' : animals'[j].age < config.max_age
             /\ Len(animals') = Cardinality(young)
             /\ \A j \in 1..Cardinality(young) :
                   animals'[j] = animals[Nth(young, j)]]_vars

\* kill_old_animals has removed some animals and kept others.
C3_Witness ==
    /\ pc = "kill_weak"
    /\ output # <<>>
    /\ Len(animals) >= 1
    /\ output[Len(output)].population > Len(animals)

\* C4: every animal of the world has numerator >= 1 and denominator >= 1.
C4_Positive ==
    \A i \in DOMAIN animals : animals[i].numerator >= 1 /\ animals[i].denominator >= 1

\* C5: a child's numerator is round(a*(1-m)) or round(a*(1+m)) for a the mean
\* of its parents' numerators and m the mutation fraction, and its denominator
\* likewise for the mean of the denominators.
C5_MutationBound ==
    \A k \in DOMAIN births :
        LET p == config.mutation_percentage[1]
            q == config.mutation_percentage[2]
            a2 == births[k].father.numerator + births[k].mother.numerator
            b2 == births[k].father.denominator + births[k].mother.denominator
        IN  /\ births[k].child.numerator \in
                  {RoundHalfEven(a2 * (q - p), 2 * q), RoundHalfEven(a2 * (q + p), 2 * q)}
            /\ births[k].child.denominator \in
                  {RoundHalfEven(b2 * (q - p), 2 * q), RoundHalfEven(b2 * (q + p), 2 * q)}

\* C6: the script ends, and when it has ended it has run exactly
\* max_generations steps and printed max_generations + 1 status reports, for
\* generations 0, 1, ..., max_generations in this order.
C6_Terminates ==
    <>(/\ pc = "done"
       /\ generation = config.max_generations
       /\ Len(output) = config.max_generations + 1
       /\ \A i \in DOMAIN output : output[i].generation = i - 1)

\* A run of 3 generations has ended with an empty world.
C6_Witness ==
    /\ pc = "done"
    /\ generation = 3
    /\ animals = <<>>
    /\ output[1].population > 0

\* C7: with max_distance_from_pi = 0 the world is empty from the first
\* kill_weak_animals on; an empty world stays empty through every operation,
\* and every report of an empty world is the no-animals report.
C7_ZeroDistance ==
    /\ [](config.max_distance_from_pi = 0 /\ generation >= 1 => animals = <<>>)
    /\ [][/\ (config.max_distance_from_pi = 0 /\ pc = "kill_weak") => animals' = <<>>
          /\ animals = <<>> =>
                /\ animals' = <<>>
                /\ pc = "age" =>
                      output'[Len(output')] =
                          [generation |-> generation + 1, population |-> 0,
                           fittest |-> <<>>]]_vars

\* A world that started with animals has run 3 generations at distance 0.
C7_Witness ==
    /\ config.max_distance_from_pi = 0
    /\ pc = "done"
    /\ generation = 3
    /\ output[1].population > 0
    /\ output[4].population = 0

\* C8 as stated: in the scenario all 4 animals survive kill_weak_animals, the
\* world holds 6 animals after reproduce_animals and to the end, and every
\* animal has age 1 at the end.
C8_AllSurvive ==
    /\ pc = "reproduce" => Len(animals) = 4
    /\ pc \in {"kill_overcrowded", "age", "done"} => Len(animals) = 6
    /\ pc = "done" => \A i \in DOMAIN animals : animals[i].age = 1

\* C8 as amended: in the scenario kill_weak_animals keeps exactly the animals
\* nearer than 1 to pi, reproduce_animals adds one child per two survivors,
\* kill_overcrowded removes nothing, and after age_animals every animal of
\* the world has age 1.
C8_Scenario ==
    [][/\ pc = "kill_old" => animals' = animals
       /\ pc = "kill_weak" =>
             LET near == {i \in DOMAIN animals : animals[i].fitness < Scale}
             IN  /\ Len(animals') = Cardinality(near)
                 /\ \A j \in 1..Cardinality(near) : animals'[j] = animals[Nth(near, j)]
       /\ pc = "reproduce" => Len(animals') = Len(animals) + Len(animals) \div 2
       /\ pc = "kill_overcrowded" => animals' = animals
       /\ pc = "age" =>
             /\ Len(animals') = Len(animals)
             /\ \A i \in DOMAIN animals' : animals'[i].age = 1
             /\ pc' = "done"]_vars

\* The scenario has ended with 2 survivors of the 4 and their child.
C8_Witness ==
    /\ pc = "done"
    /\ output[1].population = 4
    /\ Len(animals) = 3

\* C9: the world is sorted by ascending fitness whenever a statement of the
\* main loop starts, and the animal a report names as the fittest has the
\* least fitness of the world reported.
C9_Sorted ==
    /\ IsSorted(animals)
    /\ (pc \in {"kill_old", "done"} /\ animals # <<>>) =>
          /\ output[Len(output)].fittest # <<>>
          /\ \A i \in DOMAIN animals :
                output[Len(output)].fittest[1].fitness <= animals[i].fitness

\* A child fitter than its father stands first in the world.
C9_Witness ==
    /\ pc = "kill_overcrowded"
    /\ births # <<>>
    /\ animals[1] = births[1].child
    /\ animals[1].fitness < births[1].father.fitness

\* C10: when initial_population <= max_population, the world holds at most
\* max_population animals at the start and after every generation step.
C10_Cap ==
    (config.initial_population <= config.max_population /\ pc \in {"kill_old", "done"})
        => Len(animals) <= config.max_population

\* A generation step has ended after reproduction pushed the world over the
\* cap and kill_overcrowded cut it down.
C10_Witness ==
    /\ config.initial_population <= config.max_population
    /\ pc \in {"kill_old", "done"}
    /\ generation >= 1
    /\ Truncated

====
